---- MODULE Spec2Model ----
(***************************************************************************)
(* Compass navigator: geodesy helpers and formatDistance                   *)
(* (utils/geolocation), the filter bank (utils/filters), the orientation   *)
(* engine (SensorService), the location tracker (LocationService), the     *)
(* navigation state aggregator with its mount effect (hooks/useNavigation) *)
(* and the direction hint (components/NavigationInfo).                     *)
(*                                                                         *)
(* Numbers.  The program computes on JavaScript numbers (IEEE-754 binary   *)
(* floating point).  An angle or a coordinate is held here as an integer   *)
(* count of 2^-FracBits degree, and the result of an addition or a         *)
(* subtraction is rounded to SignificandBits significant bits, ties to     *)
(* even, as the hardware rounds it (the format is the double's with a      *)
(* narrower significand).  On whole degrees below 2^(SignificandBits -     *)
(* FracBits) every operation is exact, in the model as in the program.     *)
(* Sines and cosines are fixed-point numbers, TrigScale standing for 1.0.  *)
(***************************************************************************)
EXTENDS Integers, Sequences, FiniteSets, TLC

VARIABLES
    \* pure-function harness (utils/geolocation)
    geoA, geoB, geoCall, geoResult,
    \* useNavigation: the React state cell navigationData and its queue of
    \* pending updaters; history: the last sample each source delivered and
    \* the kind of the last updater applied
    navigationData, pending, lastLocation, lastHeading, lastApplied,
    \* SensorService: the hardware listeners attached, the heading filter's
    \* running averages, the current values, the calibration
    deviceMotionSubscription, magnetometerSubscription,
    headingFilter, currentHeading, currentPitch, currentRoll,
    calibrationOffset, isCalibrated,
    \* SensorService: the listeners in insertion order, and what the last
    \* fan-out delivered to each
    sensorListeners, sensorDelivered,
    \* history of the orientation engine: the last raw sample ingested, how
    \* often the sample changed, the calibrations made, and the calibration
    \* under observation (phase, its target, whether the filter had converged)
    lastSample, turns, calibrations, calPhase, calTarget, calConverged,
    \* LocationService: the listeners in insertion order
    locationListeners,
    \* the unsubscribe functions addListener has returned (either service),
    \* each with the listener it closes over and how often it was called
    unsubscribers,
    \* history: the listeners a cleanup removed that were not added again
    torn,
    \* the motion hardware: how many listeners are attached to DeviceMotion
    \* and to Magnetometer; startSensors calls awaiting checkAvailability,
    \* and how many startSensors calls were made
    deviceMotionListeners, magnetometerListeners, sensorStarting, starts,
    \* history of the orientation samples: whether the ingest of the last
    \* accepted one ended by an exception thrown to the source, and how many
    \* samples were accepted
    sensorThrown, samples,
    \* history: DeviceMotion events handled that carried no rotation
    emptyEvents,
    \* LocationService: last known location, whether a watch handle is held
    currentLocation, locationSubscription,
    \* the position hardware: watches active, startWatching calls awaiting
    \* watchPositionAsync, and how many startWatching calls were made
    positionWatches, watchStarting, watches,
    \* history of the last location fix, as for the orientation samples
    locationDelivered, locationThrown, fixes,
    \* history: calls of cleanup made (either service)
    cleanups,
    \* useNavigation: where the mount effect's initialize() stands, and the
    \* state cells error, isLocationPermissionGranted, isSensorActive
    hookPc, error, isLocationPermissionGranted, isSensorActive,
    \* history of initialize(): whether the location permission was refused,
    \* and what the hook's checkAvailability resolved to
    permissionRefused, availabilitySeen,
    \* useNavigation: whether the mount effect's cleanup has run
    unmounted,
    \* a MovingAverageFilter, with the inputs given to it and its outputs
    movingAverage, maInputs, maOutputs,
    \* one filter of the bank: the instance, the constructor arguments it
    \* was made with, the inputs given and the outputs returned since its
    \* construction or last reset; history: resets made, updates made in all
    bankFilter, bankArgs, bankInputs, bankOutputs, bankResets, bankUpdates,
    \* which of the two services a run of SpecServices observes (they are
    \* separate singletons and share no field)
    observed

geoVars == <<geoA, geoB, geoCall, geoResult>>
navVars == <<navigationData, pending, lastLocation, lastHeading, lastApplied>>
sensorHardware == <<deviceMotionSubscription, magnetometerSubscription,
                    deviceMotionListeners, magnetometerListeners, sensorStarting, starts>>
ingestVars == <<sensorThrown, samples, emptyEvents>>
sensorVars == <<sensorHardware, ingestVars,
                headingFilter, currentHeading, currentPitch, currentRoll,
                calibrationOffset, isCalibrated, sensorListeners, sensorDelivered,
                lastSample, turns, calibrations, calPhase, calTarget, calConverged>>
registryVars == <<locationListeners, unsubscribers, torn>>
locationVars == <<currentLocation, locationSubscription, positionWatches, watchStarting,
                  watches, locationDelivered, locationThrown, fixes, cleanups>>
hookVars == <<hookPc, error, isLocationPermissionGranted, isSensorActive,
              permissionRefused, availabilitySeen, unmounted>>
bankVars == <<bankFilter, bankArgs, bankInputs, bankOutputs, bankResets, bankUpdates>>
filterVars == <<movingAverage, maInputs, maOutputs, bankVars>>
restVars == <<locationVars, hookVars, filterVars, observed>>
vars == <<geoVars, navVars, sensorVars, registryVars, restVars>>

----------------------------------------------------------------------------
(* Number representation *)

FracBits == 16

SignificandBits == 24

\* units per degree
Unit == 2 ^ FracBits

Deg(d) == d * Unit

Abs(n) == IF n < 0 THEN -n ELSE n

\* Round n to SignificandBits significant bits, ties to even (IEEE-754
\* round-to-nearest-even, the rounding of every JavaScript + and -).
Fl(n) ==
    LET m == Abs(n)
        e == CHOOSE k \in 0..(30 - SignificandBits) :
                 /\ m < 2 ^ (SignificandBits + k)
                 /\ (k = 0 \/ m >= 2 ^ (SignificandBits + k - 1))
        q == 2 ^ e
        lo == (m \div q) * q
        r == m - lo
        up == IF 2 * r > q \/ (2 * r = q /\ (m \div q) % 2 = 1) THEN lo + q ELSE lo
    IN  IF n < 0 THEN -up ELSE up

\* JavaScript a + b and a - b
FAdd(a, b) == Fl(a + b)

FSub(a, b) == Fl(a - b)

\* JavaScript a % n for n > 0: the remainder takes the sign of the dividend
\* (and is exact in floating point).
JsRem(a, n) == IF a >= 0 THEN a % n ELSE -((-a) % n)

----------------------------------------------------------------------------
(* Math.sin, Math.cos, Math.sqrt, Math.atan2 in fixed point *)

\* round(10000 * sin(d degrees)) for d = 0..90
SinTable ==
    << 0, 175, 349, 523, 698, 872, 1045, 1219, 1392, 1564,
       1736, 1908, 2079, 2250, 2419, 2588, 2756, 2924, 3090, 3256,
       3420, 3584, 3746, 3907, 4067, 4226, 4384, 4540, 4695, 4848,
       5000, 5150, 5299, 5446, 5592, 5736, 5878, 6018, 6157, 6293,
       6428, 6561, 6691, 6820, 6947, 7071, 7193, 7314, 7431, 7547,
       7660, 7771, 7880, 7986, 8090, 8192, 8290, 8387, 8480, 8572,
       8660, 8746, 8829, 8910, 8988, 9063, 9135, 9205, 9272, 9336,
       9397, 9455, 9511, 9563, 9613, 9659, 9703, 9744, 9781, 9816,
       9848, 9877, 9903, 9925, 9945, 9962, 9976, 9986, 9994, 9998,
       10000 >>

\* the fixed-point 1.0: sin(90 degrees)
TrigScale == SinTable[Len(SinTable)]

\* n / q rounded to the nearest integer
RoundDiv(n, q) == (n + q \div 2) \div q

\* product of two fixed-point numbers
FxMul(p, q) == RoundDiv(p * q, TrigScale)

\* sine of a whole number of degrees, d in 0..360
SinWhole(d) ==
    IF d <= 90 THEN SinTable[d + 1]
    ELSE IF d <= 180 THEN SinTable[180 - d + 1]
    ELSE IF d <= 270 THEN -SinTable[d - 180 + 1]
    ELSE -SinTable[360 - d + 1]

\* sine of an angle in degree units, interpolated between whole degrees
SinDeg(u) ==
    LET w == u % Deg(360)
        d == w \div Unit
        r == w % Unit
    IN  RoundDiv(SinWhole(d) * (Unit - r) + SinWhole(d + 1) * r, Unit)

CosDeg(u) == SinDeg(u + Deg(90))

\* degrees * (Math.PI / 180), with pi = 355/113, in 2^-FracBits radian
toRadians(degrees) ==
    LET k == degrees \div 180
        r == degrees % 180
    IN  (k * 355) \div 113 + RoundDiv(r * 355, 113 * 180)

\* radians * (180 / Math.PI): 180 * 113 / 355 = 4068 / 71
toDegrees(radians) ==
    LET k == radians \div 71
        r == radians % 71
    IN  k * 4068 + RoundDiv(r * 4068, 71)

MathSin(radians) == SinDeg(toDegrees(radians))

MathCos(radians) == CosDeg(toDegrees(radians))

RECURSIVE SqrtSearch(_, _, _)
SqrtSearch(n, lo, hi) ==
    IF lo >= hi THEN lo
    ELSE LET mid == (lo + hi + 1) \div 2
         IN  IF mid * mid <= n THEN SqrtSearch(n, mid, hi)
             ELSE SqrtSearch(n, lo, mid - 1)

\* Math.sqrt of a fixed-point number in [0, 1]
MathSqrt(a) ==
    LET n == a * TrigScale
        f == SqrtSearch(n, 0, TrigScale)
    IN  IF (f + 1) * (f + 1) - n < n - f * f THEN f + 1 ELSE f

\* resolution of the arc tangent: 1/16 degree
AtanStep == Unit \div 16

\* ay * cos(c) - ax * sin(c): positive while direction c is below that of
\* (ax, ay), negative above it; decreasing in c over the first quadrant
AtanCross(ay, ax, i) == ay * CosDeg(i * AtanStep) - ax * SinDeg(i * AtanStep)

\* the last step i in lo..hi of the first quadrant with AtanCross >= 0
RECURSIVE AtanSearch(_, _, _, _)
AtanSearch(ay, ax, lo, hi) ==
    IF lo >= hi THEN lo
    ELSE LET mid == (lo + hi + 1) \div 2
         IN  IF AtanCross(ay, ax, mid) >= 0 THEN AtanSearch(ay, ax, mid, hi)
             ELSE AtanSearch(ay, ax, lo, mid - 1)

\* Math.atan2(y, x) in degree units, in (-180, 180], to the nearest AtanStep:
\* the angle of (|x|, |y|) in the first quadrant, then the quadrant of (x, y)
Atan2Deg(y, x) ==
    IF x = 0 /\ y = 0 THEN 0
    ELSE LET ay == Abs(y)
             ax == Abs(x)
             last == Deg(90) \div AtanStep
             i == AtanSearch(ay, ax, 0, last)
             j == IF i < last /\ -AtanCross(ay, ax, i + 1) < AtanCross(ay, ax, i)
                  THEN i + 1 ELSE i
             t == j * AtanStep
         IN  IF x >= 0 /\ y >= 0 THEN t
             ELSE IF x < 0 /\ y >= 0 THEN Deg(180) - t
             ELSE IF x < 0 THEN t - Deg(180)
             ELSE -t

\* Math.atan2(y, x), in 2^-FracBits radian
MathAtan2(y, x) == toRadians(Atan2Deg(y, x))

----------------------------------------------------------------------------
(* utils/geolocation: angles *)

normalizeAngle_noNegativeFix(angle) == JsRem(angle, Deg(360))

normalizeAngle(angle) ==
    LET normalized == JsRem(angle, Deg(360))
    IN  IF normalized < 0 THEN FAdd(normalized, Deg(360)) ELSE normalized

RECURSIVE WhileAbove180(_)
WhileAbove180(diff) ==
    IF diff > Deg(180) THEN WhileAbove180(FSub(diff, Deg(360))) ELSE diff

RECURSIVE WhileBelowMinus180(_)
WhileBelowMinus180(diff) ==
    IF diff < Deg(-180) THEN WhileBelowMinus180(FAdd(diff, Deg(360))) ELSE diff

angleDifference_noUpperLoop(angle1, angle2) ==
    WhileBelowMinus180(FSub(angle2, angle1))

angleDifference_swapped(angle1, angle2) ==
    WhileBelowMinus180(WhileAbove180(FSub(angle1, angle2)))

angleDifference(angle1, angle2) ==
    WhileBelowMinus180(WhileAbove180(FSub(angle2, angle1)))

----------------------------------------------------------------------------
(* utils/geolocation: distance and bearing *)

EARTH_RADIUS_METERS == 6371000

\* radians * meters, the radians in 2^-FracBits radian, the result in meters
RadTimesMeters(c, meters) ==
    LET k == c \div Unit
        r == c % Unit
        km == meters \div 1000
    IN  meters * k + ((r * km) \div Unit) * 1000 + (((r * km) % Unit) * 1000) \div Unit

calculateDistance(coord1, coord2) ==
    LET lat1Rad == toRadians(coord1.latitude)
        lat2Rad == toRadians(coord2.latitude)
        deltaLatRad == toRadians(FSub(coord2.latitude, coord1.latitude))
        deltaLonRad == toRadians(FSub(coord2.longitude, coord1.longitude))
        a == FxMul(MathSin(deltaLatRad \div 2), MathSin(deltaLatRad \div 2))
             + FxMul(FxMul(MathCos(lat1Rad), MathCos(lat2Rad)),
                     FxMul(MathSin(deltaLonRad \div 2), MathSin(deltaLonRad \div 2)))
        c == 2 * MathAtan2(MathSqrt(a), MathSqrt(TrigScale - a))
    IN  RadTimesMeters(c, EARTH_RADIUS_METERS)

calculateBearing(from, to) ==
    LET lat1Rad == toRadians(from.latitude)
        lat2Rad == toRadians(to.latitude)
        deltaLonRad == toRadians(FSub(to.longitude, from.longitude))
        y == FxMul(MathSin(deltaLonRad), MathCos(lat2Rad))
        x == FxMul(MathCos(lat1Rad), MathSin(lat2Rad))
             - FxMul(FxMul(MathSin(lat1Rad), MathCos(lat2Rad)), MathCos(deltaLonRad))
        bearingRad == MathAtan2(y, x)
        bearingDeg == toDegrees(bearingRad)
    IN  JsRem(FAdd(bearingDeg, Deg(360)), Deg(360))

----------------------------------------------------------------------------
(* Harness applying the pure angle functions to inputs drawn at Init *)

\* whole degrees: negative, in range, the half turn, several turns
WholeDegrees == {-725, -540, -370, -360, -190, -180, -90, -10, 0, 10, 90, 170,
                 180, 190, 270, 350, 359, 360, 370, 540, 725}

\* 2^-FracBits degree: the smallest step of the representation
Tiny == {-2, -1, 1, 2}

GeoInputs == {Deg(d) : d \in WholeDegrees}
             \cup {Fl(Deg(d) + t) : d \in {0, 180, 360, -360}, t \in Tiny}

GeoIdle ==
    /\ geoA = 0
    /\ geoB = 0
    /\ geoCall = "none"
    /\ geoResult = 0

GeoInit ==
    /\ geoA \in GeoInputs
    /\ geoB \in GeoInputs
    /\ geoCall = "none"
    /\ geoResult = 0

CallNormalizeAngle ==
    /\ geoCall = "none"
    /\ geoCall' = "normalizeAngle"
    /\ geoResult' = normalizeAngle(geoA)
    /\ UNCHANGED <<geoA, geoB>>
    /\ UNCHANGED <<navVars, sensorVars, registryVars, restVars>>

CallAngleDifference ==
    /\ geoCall = "none"
    /\ geoCall' = "angleDifference"
    /\ geoResult' = angleDifference(geoA, geoB)
    /\ UNCHANGED <<geoA, geoB>>
    /\ UNCHANGED <<navVars, sensorVars, registryVars, restVars>>

GeoNext == CallNormalizeAngle \/ CallAngleDifference

----------------------------------------------------------------------------
(* hooks/useNavigation: the navigation state aggregator *)

\* a nullable value: <<>> is null, <<v>> is the value v
Null == <<>>

Some(v) == <<v>>

\* a coordinate written in 10^-7 degree, as the source writes TARGET_LOCATION
FromE7(v) == (v \div 10000000) * Unit + RoundDiv(((v % 10000000) \div 1000) * Unit, 10000)

\* Digantara Industries coordinates: 13.0453132, 77.5733936
TARGET_LOCATION == [latitude |-> FromE7(130453132), longitude |-> FromE7(775733936)]

\* useState<NavigationData>(...)'s initial value
InitialNavigationData ==
    [userLocation |-> Null,
     targetLocation |-> TARGET_LOCATION,
     distance |-> Null,
     bearing |-> Null,
     deviceHeading |-> Null,
     relativeAngle |-> Null]

\* updateLocation without the recomputation of relativeAngle
updateLocation_staleAngle(prev, location) ==
    [prev EXCEPT !.userLocation = Some(location),
                 !.distance = Some(calculateDistance(location, TARGET_LOCATION)),
                 !.bearing = Some(calculateBearing(location, TARGET_LOCATION))]

\* updateLocation without the spread of prev: the heading is dropped
updateLocation_noSpread(prev, location) ==
    [prev EXCEPT !.userLocation = Some(location),
                 !.distance = Some(calculateDistance(location, TARGET_LOCATION)),
                 !.bearing = Some(calculateBearing(location, TARGET_LOCATION)),
                 !.deviceHeading = Null,
                 !.relativeAngle = Null]

\* the updater updateLocation passes to setNavigationData
updateLocation(prev, location) ==
    LET distance == calculateDistance(location, TARGET_LOCATION)
        bearing == calculateBearing(location, TARGET_LOCATION)
        relativeAngle == IF prev.deviceHeading # Null
                         THEN Some(angleDifference(prev.deviceHeading[1], bearing))
                         ELSE Null
    IN  [prev EXCEPT !.userLocation = Some(location),
                     !.distance = Some(distance),
                     !.bearing = Some(bearing),
                     !.relativeAngle = relativeAngle]

\* updateDeviceHeading without the null check of prev.bearing
updateDeviceHeading_noNullCheck(prev, heading) ==
    [prev EXCEPT !.deviceHeading = Some(normalizeAngle(heading)),
                 !.relativeAngle =
                     Some(angleDifference(normalizeAngle(heading),
                                          IF prev.bearing # Null THEN prev.bearing[1] ELSE 0))]

\* updateDeviceHeading storing the heading only
updateDeviceHeading_headingOnly(prev, heading) ==
    [prev EXCEPT !.deviceHeading = Some(normalizeAngle(heading))]

\* the updater updateDeviceHeading passes to setNavigationData
updateDeviceHeading(prev, heading) ==
    LET normalizedHeading == normalizeAngle(heading)
        relativeAngle == IF prev.bearing # Null
                         THEN Some(angleDifference(normalizedHeading, prev.bearing[1]))
                         ELSE Null
    IN  [prev EXCEPT !.deviceHeading = Some(normalizedHeading),
                     !.relativeAngle = relativeAngle]

\* bound: updaters queued by setNavigationData and not yet applied by React
MaxPending == 2

\* position fixes the Location Source delivers: the target itself, points due
\* south, north, east and west of it, and two points far from it
Locations ==
    { TARGET_LOCATION,
      [TARGET_LOCATION EXCEPT !.latitude = @ - Deg(5)],
      [TARGET_LOCATION EXCEPT !.latitude = @ + Deg(5)],
      [TARGET_LOCATION EXCEPT !.longitude = @ + Deg(10)],
      [TARGET_LOCATION EXCEPT !.longitude = @ - Deg(10)],
      [latitude |-> Deg(20), longitude |-> Deg(70)],
      [latitude |-> Deg(-40), longitude |-> Deg(-100)] }

\* headings handed to the hook's sensor listener
Headings == {Deg(d) : d \in {-10, 0, 90, 180, 190, 350, 725}}

NavInit ==
    /\ navigationData = InitialNavigationData
    /\ pending = <<>>
    /\ lastLocation = Null
    /\ lastHeading = Null
    /\ lastApplied = "none"

\* the location listener (or the initial fix) calls updateLocation(location):
\* setNavigationData queues the updater
LocationUpdate(location) ==
    /\ Len(pending) < MaxPending
    /\ pending' = Append(pending, [kind |-> "location", location |-> location])
    /\ lastLocation' = Some(location)
    /\ UNCHANGED <<navigationData, lastHeading, lastApplied>>
    /\ UNCHANGED <<geoVars, sensorVars, registryVars, restVars>>

\* the sensor listener calls updateDeviceHeading(heading)
HeadingUpdate(heading) ==
    /\ Len(pending) < MaxPending
    /\ pending' = Append(pending, [kind |-> "heading", heading |-> heading])
    /\ lastHeading' = Some(heading)
    /\ UNCHANGED <<navigationData, lastLocation, lastApplied>>
    /\ UNCHANGED <<geoVars, sensorVars, registryVars, restVars>>

\* the updater at the head of the queue applied to a snapshot
ApplyUpdater(prev, u) ==
    IF u.kind = "location" THEN updateLocation(prev, u.location)
    ELSE updateDeviceHeading(prev, u.heading)

\* React applies the queued updaters in the order they were queued, each to
\* the state the one before it returned
ProcessUpdate ==
    /\ pending # <<>>
    /\ navigationData' = ApplyUpdater(navigationData, Head(pending))
    /\ pending' = Tail(pending)
    /\ lastApplied' = Head(pending).kind
    /\ UNCHANGED <<lastLocation, lastHeading>>
    /\ UNCHANGED <<geoVars, sensorVars, registryVars, restVars>>

NavNext ==
    \/ \E location \in Locations : LocationUpdate(location)
    \/ \E heading \in Headings : HeadingUpdate(heading)
    \/ ProcessUpdate

----------------------------------------------------------------------------
(* utils/filters: AngleFilter *)

\* a smoothing factor given in tenths, as a fixed-point number
Tenths(n) == (n * TrigScale) \div 10

Min(a, b) == IF a < b THEN a ELSE b

Max(a, b) == IF a > b THEN a ELSE b

\* constructor: this.alpha = Math.max(0, Math.min(1, alpha))
AngleFilterAlpha(alpha) == Max(0, Min(TrigScale, alpha))

\* a new AngleFilter: sinAvg = 0, cosAvg = 0
NewAngleFilter(alpha) == [sinAvg |-> 0, cosAvg |-> 0, alpha |-> AngleFilterAlpha(alpha)]

\* update(angleDegrees): the running averages after the update
AngleFilterUpdate(f, angleDegrees) ==
    LET angleRad == toRadians(angleDegrees)
    IN  [f EXCEPT !.sinAvg = FxMul(f.alpha, MathSin(angleRad))
                                 + FxMul(TrigScale - f.alpha, f.sinAvg),
                  !.cosAvg = FxMul(f.alpha, MathCos(angleRad))
                                 + FxMul(TrigScale - f.alpha, f.cosAvg)]

\* the value returned without the shift into [0, 360)
AngleFilterValue_noShift(f) ==
    LET smoothedRad == MathAtan2(f.sinAvg, f.cosAvg)
        smoothedDeg == toDegrees(smoothedRad)
    IN  JsRem(smoothedDeg, Deg(360))

\* update(angleDegrees): the value returned, from the averages just stored
AngleFilterValue(f) ==
    LET smoothedRad == MathAtan2(f.sinAvg, f.cosAvg)
        smoothedDeg == toDegrees(smoothedRad)
    IN  JsRem(FAdd(smoothedDeg, Deg(360)), Deg(360))

----------------------------------------------------------------------------
(* services/SensorService: the orientation engine *)

\* an angle given in milliradians, in 2^-FracBits radian
Rad(milli) == (milli * Unit) \div 1000

\* DeviceMotion events: two orientations, and an event without rotation
DeviceMotionEvents ==
    { [rotation |-> Some([alpha |-> Rad(1571), beta |-> Rad(100), gamma |-> Rad(-50)])],
      [rotation |-> Some([alpha |-> Rad(-524), beta |-> Rad(-200), gamma |-> Rad(300)])],
      [rotation |-> Null] }

\* Magnetometer events
MagnetometerEvents ==
    { [x |-> 20, y |-> 0, z |-> -40],
      [x |-> -15, y |-> 15, z |-> -40] }

\* headings the user calibrates to: whole degrees, and the smallest number
\* below zero
CalibrationTargets == {Deg(90), Deg(350), Deg(725), Deg(0) - 1}

\* bound: how often the orientation may change between two samples
MaxTurns == 0

\* bound: calls of calibrate
MaxCalibrations == 2

\* bound: the accepted samples (fixes) counted, and delivered while the
\* services are started and stopped
MaxSamples == 2

\* the hook's sensor listener (initializeSensors)
HookHeadingListener == "updateDeviceHeading"

\* the fields as constructed
SensorConstructed ==
    /\ headingFilter = NewAngleFilter(Tenths(2))
    /\ currentHeading = 0
    /\ currentPitch = 0
    /\ currentRoll = 0
    /\ calibrationOffset = 0
    /\ isCalibrated = FALSE
    /\ sensorDelivered = <<>>
    /\ lastSample = Null
    /\ turns = 0
    /\ calibrations = 0
    /\ calPhase = "none"
    /\ calTarget = 0
    /\ calConverged = FALSE
    /\ sensorThrown = FALSE
    /\ samples = 0
    /\ emptyEvents = 0
    /\ sensorStarting = 0
    /\ starts = 0

\* the engine never started, nobody listening
SensorIdle ==
    /\ SensorConstructed
    /\ deviceMotionSubscription = FALSE
    /\ magnetometerSubscription = FALSE
    /\ deviceMotionListeners = 0
    /\ magnetometerListeners = 0
    /\ sensorListeners = <<>>

\* the engine once initializeSensors has run: startSensors attached the
\* DeviceMotion listener, or the Magnetometer listener when DeviceMotion is
\* not available, and the hook added its listener
SensorStarted ==
    /\ SensorConstructed
    /\ \E deviceMotion \in BOOLEAN :
           /\ deviceMotionSubscription = deviceMotion
           /\ magnetometerSubscription = ~deviceMotion
           /\ deviceMotionListeners = (IF deviceMotion THEN 1 ELSE 0)
           /\ magnetometerListeners = (IF deviceMotion THEN 0 ELSE 1)
    /\ sensorListeners = <<HookHeadingListener>>

\* the elements of a sequence
Range(seq) == {seq[i] : i \in DOMAIN seq}

\* the listeners that throw when they are called
FaultyCallbacks == {"onHeadingFaulty", "onLocationFaulty"}

\* Set.prototype.forEach over listeners that may throw: how many listeners
\* are called; the first one that throws ends the iteration
CalledCount(listeners) ==
    IF \E i \in DOMAIN listeners : listeners[i] \in FaultyCallbacks
    THEN CHOOSE i \in DOMAIN listeners :
             /\ listeners[i] \in FaultyCallbacks
             /\ \A j \in 1..(i - 1) : listeners[j] \notin FaultyCallbacks
    ELSE Len(listeners)

\* forEach ends by an exception, which nothing in the services catches
ForEachThrows(listeners) ==
    \E i \in DOMAIN listeners : listeners[i] \in FaultyCallbacks

\* (variant: the listeners called last to first)
notifyListeners_reversed(listeners, heading, pitch, roll) ==
    [i \in 1..Len(listeners) |->
        [listener |-> listeners[Len(listeners) + 1 - i],
         heading |-> heading, pitch |-> pitch, roll |-> roll]]

\* notifyListeners: each listener, in insertion order, is called with the
\* current values
notifyListeners(listeners, heading, pitch, roll) ==
    [i \in 1..CalledCount(listeners) |->
        [listener |-> listeners[i], heading |-> heading, pitch |-> pitch, roll |-> roll]]

\* the heading filter would not move on another sample like the last one
Converged(sample) ==
    /\ lastSample = Some(sample)
    /\ AngleFilterUpdate(headingFilter, sample.angle) = headingFilter

\* history kept by both ingest paths; sample.angle is the angle given to the filter
IngestHistory(sample) ==
    /\ lastSample' = Some(sample)
    /\ turns' = IF lastSample # Null /\ lastSample # Some(sample) THEN turns + 1 ELSE turns
    /\ calPhase' = IF calPhase = "calibrated" /\ lastSample = Some(sample)
                   THEN "reingested" ELSE "none"
    /\ calTarget' = IF calPhase = "calibrated" /\ lastSample = Some(sample)
                    THEN calTarget ELSE 0
    /\ calConverged' = IF calPhase = "calibrated" /\ lastSample = Some(sample)
                       THEN calConverged ELSE FALSE
    /\ sensorThrown' = ForEachThrows(sensorListeners)
    /\ samples' = Min(samples + 1, MaxSamples)
    /\ UNCHANGED <<calibrations, emptyEvents>>

MayIngest(sample) ==
    lastSample = Null \/ lastSample = Some(sample) \/ turns < MaxTurns

\* bound: no-rotation events counted
MaxEmptyEvents == 1

\* an event without rotation fanned out with the values stored
noRotationEvent_notify ==
    /\ emptyEvents' = Min(emptyEvents + 1, MaxEmptyEvents)
    /\ sensorDelivered' = notifyListeners(sensorListeners, currentHeading,
                                          currentPitch, currentRoll)
    /\ sensorThrown' = ForEachThrows(sensorListeners)
    /\ samples' = Min(samples + 1, MaxSamples)
    /\ UNCHANGED <<headingFilter, currentHeading, currentPitch, currentRoll,
                   lastSample, turns, calibrations, calPhase, calTarget, calConverged>>

\* processDeviceMotion(data) when data.rotation is absent: the body of the
\* if is skipped and there is no else
noRotationEvent ==
    /\ emptyEvents' = Min(emptyEvents + 1, MaxEmptyEvents)
    /\ UNCHANGED <<headingFilter, currentHeading, currentPitch, currentRoll,
                   sensorDelivered, lastSample, turns, calibrations,
                   sensorThrown, samples, calPhase, calTarget, calConverged>>

\* processDeviceMotion(data)
processDeviceMotionStep(data) ==
    /\ deviceMotionListeners > 0
    /\ IF data.rotation # Null
       THEN LET rotation == data.rotation[1]
                raw == normalizeAngle(toDegrees(rotation.alpha))
                sample == [source |-> "deviceMotion", angle |-> raw, data |-> data]
                filter == AngleFilterUpdate(headingFilter, raw)
                heading == normalizeAngle(FAdd(AngleFilterValue(filter), calibrationOffset))
                pitch == toDegrees(rotation.beta)
                roll == toDegrees(rotation.gamma)
            IN  /\ MayIngest(sample)
                /\ headingFilter' = filter
                /\ currentHeading' = heading
                /\ currentPitch' = pitch
                /\ currentRoll' = roll
                /\ sensorDelivered' = notifyListeners(sensorListeners, heading, pitch, roll)
                /\ IngestHistory(sample)
       ELSE noRotationEvent
    /\ UNCHANGED <<sensorHardware,
                   calibrationOffset, isCalibrated, sensorListeners>>

\* processDeviceMotion(data), nothing else happening
processDeviceMotion(data) ==
    /\ processDeviceMotionStep(data)
    /\ UNCHANGED <<geoVars, navVars, registryVars, restVars>>

\* processMagnetometer(data)
processMagnetometerStep(data) ==
    /\ magnetometerListeners > 0
    /\ LET raw == normalizeAngle(toDegrees(MathAtan2(data.y, data.x)))
           sample == [source |-> "magnetometer", angle |-> raw, data |-> data]
           filter == AngleFilterUpdate(headingFilter, raw)
           heading == normalizeAngle(FAdd(AngleFilterValue(filter), calibrationOffset))
       IN  /\ MayIngest(sample)
           /\ headingFilter' = filter
           /\ currentHeading' = heading
           /\ sensorDelivered' = notifyListeners(sensorListeners, heading,
                                                 currentPitch, currentRoll)
           /\ IngestHistory(sample)
    /\ UNCHANGED <<sensorHardware,
                   currentPitch, currentRoll, calibrationOffset, isCalibrated,
                   sensorListeners>>

\* processMagnetometer(data), nothing else happening
processMagnetometer(data) ==
    /\ processMagnetometerStep(data)
    /\ UNCHANGED <<geoVars, navVars, registryVars, restVars>>

\* calibrate(trueHeading): the offset it stores
calibrateOffset(trueHeading) == FSub(trueHeading, currentHeading)

\* calibrate(trueHeading)
calibrate(trueHeading) ==
    /\ calibrations < MaxCalibrations
    /\ calibrationOffset' = calibrateOffset(trueHeading)
    /\ isCalibrated' = TRUE
    /\ calibrations' = calibrations + 1
    /\ calPhase' = "calibrated"
    /\ calTarget' = trueHeading
    /\ calConverged' = (lastSample # Null /\ Converged(lastSample[1]))
    /\ UNCHANGED <<sensorHardware,
                   headingFilter, currentHeading, currentPitch, currentRoll,
                   sensorListeners, sensorDelivered, lastSample, turns, ingestVars>>
    /\ UNCHANGED <<geoVars, navVars, registryVars, restVars>>

\* resetCalibration()
resetCalibration ==
    /\ calibrationOffset' = 0
    /\ isCalibrated' = FALSE
    /\ calPhase' = "none"
    /\ calTarget' = 0
    /\ calConverged' = FALSE
    /\ UNCHANGED <<sensorHardware,
                   headingFilter, currentHeading, currentPitch, currentRoll,
                   sensorListeners, sensorDelivered, lastSample, turns, calibrations,
                   ingestVars>>
    /\ UNCHANGED <<geoVars, navVars, registryVars, restVars>>

\* bound: calls of startSensors (of startWatching)
MaxStarts == 2

\* bound: calls of cleanup counted
MaxCleanups == 2

\* what checkAvailability may resolve to (the fields startSensors reads)
Availabilities == [deviceMotion : BOOLEAN, magnetometer : BOOLEAN]

\* AngleFilter.reset()
AngleFilterReset(f) == [f EXCEPT !.sinAvg = 0, !.cosAvg = 0]

\* the fields of the engine that stopSensors and cleanup work on; raised
\* tells whether the call ended by an exception
SensorState ==
    [deviceMotionSubscription |-> deviceMotionSubscription,
     magnetometerSubscription |-> magnetometerSubscription,
     deviceMotionListeners |-> deviceMotionListeners,
     magnetometerListeners |-> magnetometerListeners,
     listeners |-> sensorListeners,
     headingFilter |-> headingFilter,
     raised |-> FALSE]

\* (variant: remove() called without the null checks)
stopSensorsOf_unguarded(s) ==
    [s EXCEPT !.magnetometerListeners = @ - 1,
              !.magnetometerSubscription = FALSE,
              !.deviceMotionListeners = @ - 1,
              !.deviceMotionSubscription = FALSE,
              !.raised = ~s.magnetometerSubscription \/ ~s.deviceMotionSubscription]

\* stopSensors(): each subscription held is removed from its source and the
\* field set to null (gyroscope and accelerometer are never subscribed)
stopSensorsOf(s) ==
    [s EXCEPT !.magnetometerListeners = IF s.magnetometerSubscription THEN @ - 1 ELSE @,
              !.magnetometerSubscription = FALSE,
              !.deviceMotionListeners = IF s.deviceMotionSubscription THEN @ - 1 ELSE @,
              !.deviceMotionSubscription = FALSE]

\* (variant: the listeners kept)
sensorCleanupOf_keepListeners(s) ==
    [stopSensorsOf(s) EXCEPT !.headingFilter = AngleFilterReset(@)]

\* cleanup(): stopSensors, listeners.clear(), the filters reset (the pitch
\* and roll filters are never updated, so they stay as constructed)
sensorCleanupOf(s) ==
    [stopSensorsOf(s) EXCEPT !.listeners = <<>>,
                             !.headingFilter = AngleFilterReset(@)]

\* the engine's fields take the values of s
SensorBecomes(s) ==
    /\ deviceMotionSubscription' = s.deviceMotionSubscription
    /\ magnetometerSubscription' = s.magnetometerSubscription
    /\ deviceMotionListeners' = s.deviceMotionListeners
    /\ magnetometerListeners' = s.magnetometerListeners
    /\ sensorListeners' = s.listeners
    /\ headingFilter' = s.headingFilter

\* startSensors(), up to `await this.checkAvailability()`
startSensors ==
    /\ starts < MaxStarts
    /\ starts' = starts + 1
    /\ sensorStarting' = sensorStarting + 1
    /\ UNCHANGED <<deviceMotionSubscription, magnetometerSubscription,
                   deviceMotionListeners, magnetometerListeners>>
    /\ UNCHANGED <<ingestVars, headingFilter, currentHeading, currentPitch, currentRoll,
                   calibrationOffset, isCalibrated, sensorListeners, sensorDelivered,
                   lastSample, turns, calibrations, calPhase, calTarget, calConverged>>
    /\ UNCHANGED <<geoVars, navVars, registryVars, restVars>>

\* startSensors(), from the availability on: DeviceMotion is subscribed when
\* available, Magnetometer when available and DeviceMotion is not
startSensorsAttach(availability) ==
    /\ sensorStarting > 0
    /\ sensorStarting' = sensorStarting - 1
    /\ IF availability.deviceMotion
       THEN /\ deviceMotionSubscription' = TRUE
            /\ deviceMotionListeners' = deviceMotionListeners + 1
       ELSE UNCHANGED <<deviceMotionSubscription, deviceMotionListeners>>
    /\ IF availability.magnetometer /\ ~availability.deviceMotion
       THEN /\ magnetometerSubscription' = TRUE
            /\ magnetometerListeners' = magnetometerListeners + 1
       ELSE UNCHANGED <<magnetometerSubscription, magnetometerListeners>>
    /\ UNCHANGED starts
    /\ UNCHANGED <<ingestVars, headingFilter, currentHeading, currentPitch, currentRoll,
                   calibrationOffset, isCalibrated, sensorListeners, sensorDelivered,
                   lastSample, turns, calibrations, calPhase, calTarget, calConverged>>
    /\ UNCHANGED <<geoVars, navVars, registryVars, restVars>>

\* stopSensors()
stopSensors ==
    /\ SensorBecomes(stopSensorsOf(SensorState))
    /\ UNCHANGED <<sensorStarting, starts>>
    /\ UNCHANGED <<ingestVars, currentHeading, currentPitch, currentRoll,
                   calibrationOffset, isCalibrated, sensorDelivered,
                   lastSample, turns, calibrations, calPhase, calTarget, calConverged>>
    /\ UNCHANGED <<geoVars, navVars, registryVars, restVars>>

\* SensorService.cleanup()
sensorCleanup ==
    /\ SensorBecomes(sensorCleanupOf(SensorState))
    /\ cleanups' = Min(cleanups + 1, MaxCleanups)
    /\ torn' = torn \cup Range(sensorListeners)
    /\ UNCHANGED <<sensorStarting, starts>>
    /\ UNCHANGED <<ingestVars, currentHeading, currentPitch, currentRoll,
                   calibrationOffset, isCalibrated, sensorDelivered,
                   lastSample, turns, calibrations, calPhase, calTarget, calConverged>>
    /\ UNCHANGED <<geoVars, navVars, locationListeners, unsubscribers>>
    /\ UNCHANGED <<currentLocation, locationSubscription, positionWatches, watchStarting,
                   watches, locationDelivered, locationThrown, fixes, hookVars, filterVars, observed>>

SensorNext ==
    \/ \E data \in DeviceMotionEvents : processDeviceMotion(data)
    \/ \E data \in MagnetometerEvents : processMagnetometer(data)
    \/ \E trueHeading \in CalibrationTargets : calibrate(trueHeading)
    \/ resetCalibration

----------------------------------------------------------------------------
(* SensorService.addListener, LocationService.addListener: the registries *)

\* Set.prototype.add: a Set keeps insertion order and holds a value once
SetAdd(set, value) == IF value \in Range(set) THEN set ELSE Append(set, value)

\* Set.prototype.delete
SetDelete(set, value) == SelectSeq(set, LAMBDA x : x # value)

\* the functions callers register, by identity, for each service
Callbacks == [sensor |-> {"onHeading", "onOrientation", "onHeadingFaulty"},
              location |-> {"onLocation", "onFix", "onLocationFaulty"}]

Services == {"sensor", "location"}

\* bound: addListener calls (unsubscribe functions handed out)
MaxUnsubscribers == 3

\* bound: calls of one unsubscribe function
MaxCalls == 2

RegistryIdle ==
    /\ locationListeners = <<>>
    /\ unsubscribers = <<>>
    /\ torn = {}

\* addListener(listener) of either service: the listener is added to the
\* service's Set and a function deleting that listener is returned
addListener(service, listener) ==
    /\ Len(unsubscribers) < MaxUnsubscribers
    /\ IF service = "sensor"
       THEN /\ sensorListeners' = SetAdd(sensorListeners, listener)
            /\ UNCHANGED locationListeners
       ELSE /\ locationListeners' = SetAdd(locationListeners, listener)
            /\ UNCHANGED sensorListeners
    /\ unsubscribers' = Append(unsubscribers,
                               [service |-> service, listener |-> listener, calls |-> 0])
    /\ torn' = torn \ {listener}
    /\ UNCHANGED <<sensorHardware,
                   headingFilter, currentHeading, currentPitch, currentRoll,
                   calibrationOffset, isCalibrated, sensorDelivered,
                   lastSample, turns, calibrations, calPhase, calTarget, calConverged,
                   ingestVars>>
    /\ UNCHANGED <<geoVars, navVars, restVars>>

\* what the returned function does to a service's Set
unsubscribe(listeners, listener) == SetDelete(listeners, listener)

\* a call of the i-th function addListener returned: () => listeners.delete(listener)
callUnsubscribe(i) ==
    /\ unsubscribers[i].calls < MaxCalls
    /\ IF unsubscribers[i].service = "sensor"
       THEN /\ sensorListeners' = unsubscribe(sensorListeners, unsubscribers[i].listener)
            /\ UNCHANGED locationListeners
       ELSE /\ locationListeners' = unsubscribe(locationListeners, unsubscribers[i].listener)
            /\ UNCHANGED sensorListeners
    /\ unsubscribers' = [unsubscribers EXCEPT ![i].calls = @ + 1]
    /\ UNCHANGED torn
    /\ UNCHANGED <<sensorHardware,
                   headingFilter, currentHeading, currentPitch, currentRoll,
                   calibrationOffset, isCalibrated, sensorDelivered,
                   lastSample, turns, calibrations, calPhase, calTarget, calConverged,
                   ingestVars>>
    /\ UNCHANGED <<geoVars, navVars, restVars>>

RegistryNext ==
    \/ \E service \in Services : \E listener \in Callbacks[service] :
           addListener(service, listener)
    \/ \E i \in DOMAIN unsubscribers : callUnsubscribe(i)

----------------------------------------------------------------------------
(* services/LocationService: the location tracker *)

\* the fixes the position watch delivers while the services are observed
WatchedLocations ==
    { TARGET_LOCATION, [TARGET_LOCATION EXCEPT !.latitude = @ - Deg(5)] }

\* the tracker as constructed, never started
LocationIdle ==
    /\ currentLocation = Null
    /\ locationSubscription = FALSE
    /\ positionWatches = 0
    /\ watchStarting = 0
    /\ watches = 0
    /\ locationDelivered = <<>>
    /\ locationThrown = FALSE
    /\ fixes = 0
    /\ cleanups = 0

\* the fields stopWatching and cleanup work on; raised tells whether the call
\* ended by an exception
LocationState ==
    [locationSubscription |-> locationSubscription,
     positionWatches |-> positionWatches,
     listeners |-> locationListeners,
     currentLocation |-> currentLocation,
     raised |-> FALSE]

\* stopWatching(): the watch held is removed and the field set to null
stopWatchingOf(s) ==
    [s EXCEPT !.positionWatches = IF s.locationSubscription THEN @ - 1 ELSE @,
              !.locationSubscription = FALSE]

\* cleanup(): stopWatching, listeners.clear(), currentLocation = null
locationCleanupOf(s) ==
    [stopWatchingOf(s) EXCEPT !.listeners = <<>>, !.currentLocation = Null]

\* the tracker's fields take the values of s
LocationBecomes(s) ==
    /\ locationSubscription' = s.locationSubscription
    /\ positionWatches' = s.positionWatches
    /\ locationListeners' = s.listeners
    /\ currentLocation' = s.currentLocation

\* startWatching(), up to `await Location.watchPositionAsync(...)`: without
\* the permission it returns false, with it the existing watch is stopped
startWatching(permitted) ==
    /\ watches < MaxStarts
    /\ watches' = watches + 1
    /\ IF permitted
       THEN /\ LocationBecomes(stopWatchingOf(LocationState))
            /\ watchStarting' = watchStarting + 1
       ELSE UNCHANGED <<locationSubscription, positionWatches, locationListeners,
                        currentLocation, watchStarting>>
    /\ UNCHANGED <<locationDelivered, locationThrown, fixes, cleanups,
                   unsubscribers, torn, hookVars, filterVars, observed>>
    /\ UNCHANGED <<geoVars, navVars, sensorVars>>

\* startWatching(), from the resolution of watchPositionAsync on: the watch
\* is active and its handle stored
startWatchingResumed ==
    /\ watchStarting > 0
    /\ watchStarting' = watchStarting - 1
    /\ positionWatches' = positionWatches + 1
    /\ locationSubscription' = TRUE
    /\ UNCHANGED <<currentLocation, watches, locationDelivered, locationThrown, fixes, cleanups,
                   registryVars, hookVars, filterVars, observed>>
    /\ UNCHANGED <<geoVars, navVars, sensorVars>>

\* stopWatching()
stopWatching ==
    /\ LocationBecomes(stopWatchingOf(LocationState))
    /\ UNCHANGED <<watchStarting, watches, locationDelivered, locationThrown, fixes, cleanups,
                   unsubscribers, torn, hookVars, filterVars, observed>>
    /\ UNCHANGED <<geoVars, navVars, sensorVars>>

\* LocationService.cleanup()
locationCleanup ==
    /\ LocationBecomes(locationCleanupOf(LocationState))
    /\ cleanups' = Min(cleanups + 1, MaxCleanups)
    /\ torn' = torn \cup Range(locationListeners)
    /\ UNCHANGED <<watchStarting, watches, locationDelivered, locationThrown, fixes,
                   unsubscribers, hookVars, filterVars, observed>>
    /\ UNCHANGED <<geoVars, navVars, sensorVars>>

\* the callback given to watchPositionAsync: the fix is stored, then every
\* listener is called with it, in insertion order
watchCallbackStep(location) ==
    /\ positionWatches > 0
    /\ currentLocation' = Some(location)
    /\ locationDelivered' =
           [i \in 1..CalledCount(locationListeners) |->
               [listener |-> locationListeners[i], location |-> location]]
    /\ locationThrown' = ForEachThrows(locationListeners)
    /\ fixes' = Min(fixes + 1, MaxSamples)
    /\ UNCHANGED <<locationSubscription, positionWatches, watchStarting, watches,
                   cleanups, registryVars>>

\* the watch callback, nothing else happening
watchCallback(location) ==
    /\ watchCallbackStep(location)
    /\ UNCHANGED <<hookVars, filterVars, observed>>
    /\ UNCHANGED <<geoVars, navVars, sensorVars>>

----------------------------------------------------------------------------
(* Both services, started, stopped, listened to and torn down *)

\* a sample of the motion hardware while the services are observed
DeliverDeviceMotion(data) == samples < MaxSamples /\ processDeviceMotion(data)

DeliverMagnetometer(data) == samples < MaxSamples /\ processMagnetometer(data)

\* a fix of the position hardware while the services are observed
DeliverLocation(location) == fixes < MaxSamples /\ watchCallback(location)

\* a listener registered with the observed service
Listen(listener) == addListener(observed, listener)

ServicesNext ==
    \/ observed = "sensor" /\ startSensors
    \/ observed = "sensor" /\ \E availability \in Availabilities :
                                  startSensorsAttach(availability)
    \/ observed = "sensor" /\ stopSensors
    \/ observed = "sensor" /\ cleanups < MaxCleanups /\ sensorCleanup
    \/ observed = "sensor" /\ \E data \in DeviceMotionEvents : DeliverDeviceMotion(data)
    \/ observed = "sensor" /\ \E data \in MagnetometerEvents : DeliverMagnetometer(data)
    \/ observed = "location" /\ \E permitted \in BOOLEAN : startWatching(permitted)
    \/ observed = "location" /\ startWatchingResumed
    \/ observed = "location" /\ stopWatching
    \/ observed = "location" /\ cleanups < MaxCleanups /\ locationCleanup
    \/ observed = "location" /\ \E location \in WatchedLocations : DeliverLocation(location)
    \/ \E listener \in Callbacks[observed] : Listen(listener)

----------------------------------------------------------------------------
(* hooks/useNavigation: the mount effect and the state cells beside
   navigationData *)

HookIdle ==
    /\ hookPc = "unmounted"
    /\ error = Null
    /\ isLocationPermissionGranted = FALSE
    /\ isSensorActive = FALSE
    /\ permissionRefused = FALSE
    /\ availabilitySeen = Null
    /\ unmounted = FALSE

\* the messages setError is given
ErrPermissionDenied == "Location permission denied. Please enable location access in settings."

ErrLocationStart == "Failed to start location tracking"

ErrSensorsUnavailable == "Device sensors not available"

ErrSensorStart == "Failed to start sensors"

ErrSensorInit == "Error initializing sensors: "

\* the hook's location listener (initializeLocation)
HookLocationListener == "updateLocation"

\* the fields of the engine no step of initialize() writes
engineFields == <<headingFilter, currentHeading, currentPitch, currentRoll,
                  calibrationOffset, isCalibrated, sensorDelivered, lastSample,
                  turns, calibrations, calPhase, calTarget, calConverged>>

\* the mount effect runs and calls initialize(), which calls initializeLocation
Mount ==
    /\ hookPc = "unmounted"
    /\ UNCHANGED unmounted
    /\ hookPc' = "location"
    /\ UNCHANGED <<error, isLocationPermissionGranted, isSensorActive,
                   permissionRefused, availabilitySeen>>
    /\ UNCHANGED <<geoVars, navVars, sensorVars, registryVars, locationVars,
                   filterVars, observed>>

\* initializeLocation, the permission: held already, granted on request, or
\* refused, in which case the error is set and initializeLocation returns
initializeLocationPermission(permission) ==
    /\ hookPc = "location"
    /\ UNCHANGED unmounted
    /\ isLocationPermissionGranted' = (permission # "refused")
    /\ permissionRefused' = (permission = "refused")
    /\ IF permission = "refused"
       THEN /\ error' = Some(ErrPermissionDenied)
            /\ hookPc' = "sensors"
       ELSE /\ UNCHANGED error
            /\ hookPc' = "getCurrentLocation"
    /\ UNCHANGED <<isSensorActive, availabilitySeen>>
    /\ UNCHANGED <<geoVars, navVars, sensorVars, registryVars, locationVars,
                   filterVars, observed>>

\* initializeLocation, the initial fix: getCurrentLocation stores and returns
\* it, or returns null; a fix is handed to updateLocation
initializeLocationFix(fix) ==
    /\ hookPc = "getCurrentLocation"
    /\ UNCHANGED unmounted
    /\ hookPc' = "startWatching"
    /\ IF fix # Null
       THEN /\ Len(pending) < MaxPending
            /\ currentLocation' = fix
            /\ pending' = Append(pending, [kind |-> "location", location |-> fix[1]])
            /\ lastLocation' = fix
       ELSE UNCHANGED <<currentLocation, pending, lastLocation>>
    /\ UNCHANGED <<navigationData, lastHeading, lastApplied>>
    /\ UNCHANGED <<locationSubscription, positionWatches, watchStarting, watches,
                   locationDelivered, locationThrown, fixes, cleanups>>
    /\ UNCHANGED <<error, isLocationPermissionGranted, isSensorActive,
                   permissionRefused, availabilitySeen>>
    /\ UNCHANGED <<geoVars, sensorVars, registryVars, filterVars, observed>>

\* initializeLocation, the watch: startWatching resolves to false and the
\* error is set, or the watch runs and the hook adds its listener
initializeLocationWatch(started) ==
    /\ hookPc = "startWatching"
    /\ UNCHANGED unmounted
    /\ hookPc' = "sensors"
    /\ watches' = watches + 1
    /\ IF started
       THEN /\ locationSubscription' = TRUE
            /\ positionWatches' = stopWatchingOf(LocationState).positionWatches + 1
            /\ locationListeners' = SetAdd(locationListeners, HookLocationListener)
            /\ unsubscribers' = Append(unsubscribers,
                                       [service |-> "location",
                                        listener |-> HookLocationListener, calls |-> 0])
            /\ torn' = torn \ {HookLocationListener}
            /\ UNCHANGED error
       ELSE /\ error' = Some(ErrLocationStart)
            /\ UNCHANGED <<locationSubscription, positionWatches, locationListeners,
                           unsubscribers, torn>>
    /\ UNCHANGED <<currentLocation, watchStarting, locationDelivered, locationThrown,
                   fixes, cleanups>>
    /\ UNCHANGED <<isLocationPermissionGranted, isSensorActive,
                   permissionRefused, availabilitySeen>>
    /\ UNCHANGED <<geoVars, navVars, sensorVars, filterVars, observed>>

\* (variant: no return when neither source is available)
initializeSensorsCheck_noReturn(found) ==
    /\ hookPc = "sensors"
    /\ UNCHANGED unmounted
    /\ availabilitySeen' = found
    /\ IF found = Null
       THEN /\ error' = Some(ErrSensorInit)
            /\ hookPc' = "done"
       ELSE /\ UNCHANGED error
            /\ hookPc' = "startSensors"
    /\ UNCHANGED <<isLocationPermissionGranted, isSensorActive, permissionRefused>>
    /\ UNCHANGED <<geoVars, navVars, sensorVars, registryVars, locationVars,
                   filterVars, observed>>

\* initializeSensors, the availability: checkAvailability rejects (found is
\* null) or resolves; with neither DeviceMotion nor Magnetometer available
\* the error is set and initializeSensors returns
initializeSensorsCheck(found) ==
    /\ hookPc = "sensors"
    /\ UNCHANGED unmounted
    /\ availabilitySeen' = found
    /\ IF found = Null
       THEN /\ error' = Some(ErrSensorInit)
            /\ hookPc' = "done"
       ELSE IF ~found[1].deviceMotion /\ ~found[1].magnetometer
            THEN /\ error' = Some(ErrSensorsUnavailable)
                 /\ hookPc' = "done"
            ELSE /\ UNCHANGED error
                 /\ hookPc' = "startSensors"
    /\ UNCHANGED <<isLocationPermissionGranted, isSensorActive, permissionRefused>>
    /\ UNCHANGED <<geoVars, navVars, sensorVars, registryVars, locationVars,
                   filterVars, observed>>

\* initializeSensors, the start: startSensors resolves to false (outcome is
\* null) and the error is set, or it subscribed according to the
\* availability it found itself, the flag is set and the hook adds its listener
initializeSensorsStart(outcome) ==
    /\ hookPc = "startSensors"
    /\ UNCHANGED unmounted
    /\ hookPc' = "done"
    /\ starts' = starts + 1
    /\ IF outcome = Null
       THEN /\ error' = Some(ErrSensorStart)
            /\ UNCHANGED <<deviceMotionSubscription, magnetometerSubscription,
                           deviceMotionListeners, magnetometerListeners,
                           isSensorActive, sensorListeners, unsubscribers, torn>>
       ELSE /\ deviceMotionSubscription' =
                   (deviceMotionSubscription \/ outcome[1].deviceMotion)
            /\ deviceMotionListeners' =
                   deviceMotionListeners + (IF outcome[1].deviceMotion THEN 1 ELSE 0)
            /\ magnetometerSubscription' =
                   (magnetometerSubscription
                        \/ (outcome[1].magnetometer /\ ~outcome[1].deviceMotion))
            /\ magnetometerListeners' =
                   magnetometerListeners
                       + (IF outcome[1].magnetometer /\ ~outcome[1].deviceMotion
                          THEN 1 ELSE 0)
            /\ isSensorActive' = TRUE
            /\ sensorListeners' = SetAdd(sensorListeners, HookHeadingListener)
            /\ unsubscribers' = Append(unsubscribers,
                                       [service |-> "sensor",
                                        listener |-> HookHeadingListener, calls |-> 0])
            /\ torn' = torn \ {HookHeadingListener}
            /\ UNCHANGED error
    /\ UNCHANGED <<sensorStarting, ingestVars, engineFields>>
    /\ UNCHANGED <<isLocationPermissionGranted, permissionRefused, availabilitySeen>>
    /\ UNCHANGED <<geoVars, navVars, locationListeners, locationVars, filterVars, observed>>

\* the unsubscribe functions of the hook's listeners that the cleanup calls,
\* counted as called
HookUnsubscribed(gone) ==
    [i \in 1..Len(unsubscribers) |->
        IF unsubscribers[i].listener \in gone
        THEN [unsubscribers[i] EXCEPT !.calls = Min(@ + 1, MaxCalls)]
        ELSE unsubscribers[i]]

\* the cleanup of the mount effect, at the unmount: locationUnsubscribe and
\* sensorUnsubscribe are called when initialize() has assigned them (each is
\* assigned when its initializer has resolved, and is undefined when that
\* returned early), then both services are cleaned up
Unmount ==
    /\ hookPc # "unmounted"
    /\ ~unmounted
    /\ unmounted' = TRUE
    /\ LET locationAssigned == hookPc \in {"sensors", "startSensors", "done"}
           sensorAssigned == hookPc = "done"
           gone == (IF locationAssigned THEN {HookLocationListener} ELSE {})
                       \cup (IF sensorAssigned THEN {HookHeadingListener} ELSE {})
       IN  /\ LocationBecomes(locationCleanupOf(
                  [LocationState EXCEPT !.listeners =
                      SelectSeq(@, LAMBDA l : l \notin gone)]))
           /\ SensorBecomes(sensorCleanupOf(
                  [SensorState EXCEPT !.listeners =
                      SelectSeq(@, LAMBDA l : l \notin gone)]))
           /\ unsubscribers' = HookUnsubscribed(gone \cap (Range(locationListeners)
                                                             \cup Range(sensorListeners)))
    /\ torn' = torn \cup Range(locationListeners) \cup Range(sensorListeners)
    /\ cleanups' = MaxCleanups
    /\ UNCHANGED <<hookPc, error, isLocationPermissionGranted, isSensorActive,
                   permissionRefused, availabilitySeen>>
    /\ UNCHANGED <<watchStarting, watches, locationDelivered, locationThrown, fixes>>
    /\ UNCHANGED <<sensorStarting, starts, ingestVars, currentHeading, currentPitch,
                   currentRoll, calibrationOffset, isCalibrated, sensorDelivered,
                   lastSample, turns, calibrations, calPhase, calTarget, calConverged>>
    /\ UNCHANGED <<geoVars, navVars, filterVars, observed>>

\* a fix of the position watch: the tracker fans it out, and the hook's
\* listener, when registered, hands it to updateLocation
HookLocationFix(location) ==
    /\ fixes < MaxSamples
    /\ Len(pending) < MaxPending
    /\ watchCallbackStep(location)
    /\ IF HookLocationListener \in Range(locationListeners)
       THEN /\ pending' = Append(pending, [kind |-> "location", location |-> location])
            /\ lastLocation' = Some(location)
       ELSE UNCHANGED <<pending, lastLocation>>
    /\ UNCHANGED <<navigationData, lastHeading, lastApplied>>
    /\ UNCHANGED <<geoVars, sensorVars, hookVars, filterVars, observed>>

\* the heading the hook's listener hands to updateDeviceHeading
HookHeadingQueued ==
    IF samples' # samples /\ HookHeadingListener \in Range(sensorListeners)
    THEN /\ pending' = Append(pending, [kind |-> "heading", heading |-> currentHeading'])
         /\ lastHeading' = Some(currentHeading')
    ELSE UNCHANGED <<pending, lastHeading>>

\* a DeviceMotion event: the engine fans it out, and the hook's listener,
\* when registered, hands the heading to updateDeviceHeading
HookDeviceMotion(data) ==
    /\ samples < MaxSamples
    /\ Len(pending) < MaxPending
    /\ processDeviceMotionStep(data)
    /\ HookHeadingQueued
    /\ UNCHANGED <<navigationData, lastLocation, lastApplied>>
    /\ UNCHANGED <<geoVars, registryVars, restVars>>

\* a Magnetometer event, likewise
HookMagnetometer(data) ==
    /\ samples < MaxSamples
    /\ Len(pending) < MaxPending
    /\ processMagnetometerStep(data)
    /\ HookHeadingQueued
    /\ UNCHANGED <<navigationData, lastLocation, lastApplied>>
    /\ UNCHANGED <<geoVars, registryVars, restVars>>

HookNext ==
    \/ Mount
    \/ \E permission \in {"held", "granted", "refused"} :
           initializeLocationPermission(permission)
    \/ \E fix \in {Null} \cup {Some(l) : l \in WatchedLocations} : initializeLocationFix(fix)
    \/ \E started \in BOOLEAN : initializeLocationWatch(started)
    \/ \E found \in {Null} \cup {Some(a) : a \in Availabilities} : initializeSensorsCheck(found)
    \/ \E outcome \in {Null} \cup {Some(a) : a \in Availabilities} :
           initializeSensorsStart(outcome)
    \/ \E location \in WatchedLocations : HookLocationFix(location)
    \/ \E data \in DeviceMotionEvents : HookDeviceMotion(data)
    \/ \E data \in MagnetometerEvents : HookMagnetometer(data)
    \/ ProcessUpdate
    \/ Unmount

----------------------------------------------------------------------------
(* utils/geolocation: formatDistance *)

\* Math.round(x): the nearest integer, halves upward
MathRound(x) == (x + Unit \div 2) \div Unit

\* Math.floor(x / 1000)
FloorThousands(x) == x \div (1000 * Unit)

\* formatDistance(meters): the numbers in the text returned, `${meters}m`
\* (km is null) or `${km}km ${meters}m`
formatDistance(meters) ==
    IF meters < 1000 * Unit
    THEN [km |-> Null, meters |-> MathRound(meters)]
    ELSE [km |-> Some(FloorThousands(meters)),
          meters |-> MathRound(JsRem(meters, 1000 * Unit))]

\* bound: the largest distance formatted, in meters
MaxDistance == 2100

\* distances formatted: every half meter from 0 to MaxDistance
Distances == {k * (Unit \div 2) : k \in 0..(2 * MaxDistance)}

FormatInit ==
    /\ geoA \in Distances
    /\ geoB = 0
    /\ geoCall = "none"
    /\ geoResult = 0

CallFormatDistance ==
    /\ geoCall = "none"
    /\ geoCall' = "formatDistance"
    /\ geoResult' = formatDistance(geoA)
    /\ UNCHANGED <<geoA, geoB>>
    /\ UNCHANGED <<navVars, sensorVars, registryVars, restVars>>

FormatNext == CallFormatDistance

----------------------------------------------------------------------------
(* components/NavigationInfo: the direction hint *)

\* half-width, in degrees, of the band shown as aligned
AlignedBelow == 10

HintAligned == "Aligned with target"
HintLeft == "Turn left"
HintRight == "Turn right"

\* the success styling of the value and of the hint text
isAligned(relativeAngle) == Abs(relativeAngle) < Deg(AlignedBelow)

\* the hint with its two directions exchanged
directionHint_swapped(relativeAngle) ==
    IF Abs(relativeAngle) < Deg(AlignedBelow) THEN HintAligned
    ELSE IF relativeAngle > 0 THEN HintRight
    ELSE HintLeft

\* the text of the hint line
directionHint(relativeAngle) ==
    IF Abs(relativeAngle) < Deg(AlignedBelow) THEN HintAligned
    ELSE IF relativeAngle > 0 THEN HintLeft
    ELSE HintRight

----------------------------------------------------------------------------
(* utils/filters: MovingAverageFilter *)

\* a number of the filter's input scale, in the fixed-point representation
Num(n) == n * Unit

\* constructor arguments tried: 0 is raised to 1 by the constructor
MaxWindow == 3

\* values fed to the filter
MovingAverageInputs == {Num(1), Num(2), Num(3), Num(4)}

\* number of update() calls followed
MaxUpdates == 4

\* new MovingAverageFilter(windowSize)
NewMovingAverage(windowSize) == [buffer |-> <<>>, windowSize |-> Max(1, windowSize)]

\* buffer.reduce((a, b) => a + b, 0)
RECURSIVE BufferSum(_)
BufferSum(buffer) ==
    IF buffer = <<>> THEN 0
    ELSE FAdd(BufferSum(SubSeq(buffer, 1, Len(buffer) - 1)), buffer[Len(buffer)])

\* update() dropping the value just pushed instead of the oldest one
MovingAverageUpdate_evictNewest(f, value) ==
    LET pushed == Append(f.buffer, value)
        kept == IF Len(pushed) > f.windowSize
                THEN SubSeq(pushed, 1, Len(pushed) - 1) ELSE pushed
    IN [filter |-> [f EXCEPT !.buffer = kept],
        result |-> Fl(RoundDiv(BufferSum(kept), Len(kept)))]

\* update(value): push, shift when over the window, sum / length
MovingAverageUpdate(f, value) ==
    LET pushed == Append(f.buffer, value)
        kept == IF Len(pushed) > f.windowSize THEN Tail(pushed) ELSE pushed
    IN [filter |-> [f EXCEPT !.buffer = kept],
        result |-> Fl(RoundDiv(BufferSum(kept), Len(kept)))]

MovingAverageIdle ==
    /\ movingAverage = NewMovingAverage(1)
    /\ maInputs = <<>>
    /\ maOutputs = <<>>

\* a filter constructed with any of the window sizes tried
MovingAverageConstructed ==
    /\ \E windowSize \in 0..MaxWindow : movingAverage = NewMovingAverage(windowSize)
    /\ maInputs = <<>>
    /\ maOutputs = <<>>

\* one call of update(value), its argument and result recorded
movingAverageUpdate(value) ==
    /\ Len(maInputs) < MaxUpdates
    /\ LET r == MovingAverageUpdate(movingAverage, value)
       IN /\ movingAverage' = r.filter
          /\ maOutputs' = Append(maOutputs, r.result)
    /\ maInputs' = Append(maInputs, value)
    /\ UNCHANGED <<geoVars, navVars, sensorVars, registryVars,
                   locationVars, hookVars, bankVars, observed>>

FiltersNext == \E value \in MovingAverageInputs : movingAverageUpdate(value)


----------------------------------------------------------------------------
(* utils/filters: the filter bank *)

\* constructor: this.alpha = Math.max(0, Math.min(1, alpha))
ClampAlpha(alpha) == Max(0, Min(TrigScale, alpha))

\* factor * value for a factor in fixed point (TrigScale standing for 1.0)
\* and a value of any size: FxMul, computed on the two halves of the value
Scaled(factor, value) ==
    factor * (value \div TrigScale) + RoundDiv(factor * (value % TrigScale), TrigScale)

\* new LowPassFilter(alpha): value = null
NewLowPass(alpha) == [value |-> Null, alpha |-> ClampAlpha(alpha)]

\* update() blending the first sample with zero instead of seeding with it
LowPassUpdate_blendFirst(f, newValue) ==
    LET prior == IF f.value = Null THEN 0 ELSE f.value[1]
        v == FAdd(Scaled(f.alpha, newValue), Scaled(TrigScale - f.alpha, prior))
    IN  [filter |-> [f EXCEPT !.value = Some(v)], result |-> v]

\* LowPassFilter.update(newValue)
LowPassUpdate(f, newValue) ==
    LET v == IF f.value = Null
             THEN newValue
             ELSE FAdd(Scaled(f.alpha, newValue), Scaled(TrigScale - f.alpha, f.value[1]))
    IN  [filter |-> [f EXCEPT !.value = Some(v)], result |-> v]

\* LowPassFilter.reset()
LowPassReset(f) == [f EXCEPT !.value = Null]

\* new KalmanFilter(processNoise, measurementNoise): estimate = null,
\* errorEstimate = 1
NewKalman(processNoise, measurementNoise) ==
    [estimate |-> Null, errorEstimate |-> TrigScale,
     processNoise |-> processNoise, measurementNoise |-> measurementNoise]

\* KalmanFilter.update(measurement)
KalmanUpdate(f, measurement) ==
    IF f.estimate = Null
    THEN [filter |-> [f EXCEPT !.estimate = Some(measurement)], result |-> measurement]
    ELSE LET predictedEstimate == f.estimate[1]
             predictedError == f.errorEstimate + f.processNoise
             kalmanGain == RoundDiv(predictedError * TrigScale,
                                    predictedError + f.measurementNoise)
             estimate == FAdd(predictedEstimate,
                              Scaled(kalmanGain, FSub(measurement, predictedEstimate)))
         IN  [filter |-> [f EXCEPT !.estimate = Some(estimate),
                                   !.errorEstimate =
                                       Scaled(TrigScale - kalmanGain, predictedError)],
              result |-> estimate]

\* reset() that leaves the error estimate as it is
KalmanReset_keepError(f) == [f EXCEPT !.estimate = Null]

\* KalmanFilter.reset()
KalmanReset(f) == [f EXCEPT !.estimate = Null, !.errorEstimate = TrigScale]

\* new ComplementaryFilter(alpha): value = 0
NewComplementary(alpha) == [value |-> 0, alpha |-> ClampAlpha(alpha)]

\* ComplementaryFilter.update(gyroValue, accelMagValue, dt)
ComplementaryUpdate(f, in) ==
    LET gyroContribution == FAdd(f.value, Scaled(in.dt, in.gyroValue))
        v == FAdd(Scaled(f.alpha, gyroContribution),
                  Scaled(TrigScale - f.alpha, in.accelMagValue))
    IN  [filter |-> [f EXCEPT !.value = v], result |-> v]

\* ComplementaryFilter.reset()
ComplementaryReset(f) == [f EXCEPT !.value = 0]

\* MovingAverageFilter.reset()
MovingAverageReset(f) == [f EXCEPT !.buffer = <<>>]

\* AngleFilter.update(angleDegrees): the averages stored and the value returned
AngleUpdate(f, angleDegrees) ==
    LET g == AngleFilterUpdate(f, angleDegrees)
    IN  [filter |-> g, result |-> AngleFilterValue(g)]

\* the five classes of the bank
FilterKinds == {"lowPass", "angle", "kalman", "complementary", "movingAverage"}

\* constructor arguments tried, per class: smoothing factors below, inside
\* and above [0, 1]; noises; window sizes
BankArguments ==
    [lowPass |-> {[alpha |-> a] : a \in {-Tenths(5), 0, Tenths(3), Tenths(10), Tenths(15)}},
     angle |-> {[alpha |-> a] : a \in {Tenths(2), Tenths(5), Tenths(10), Tenths(15)}},
     kalman |-> {[processNoise |-> q, measurementNoise |-> r] :
                    q \in {0, TrigScale \div 100}, r \in {TrigScale \div 10, TrigScale}},
     complementary |-> {[alpha |-> a] : a \in {0, Tenths(5), Tenths(10)}},
     movingAverage |-> {[windowSize |-> w] : w \in {0, 2}}]

\* inputs tried, per class
BankSamples ==
    [lowPass |-> {Num(1), 0, Num(-1)},
     angle |-> {Deg(350), Deg(10), Deg(90)},
     kalman |-> {Num(1), Num(2), Num(-2)},
     complementary |-> {[gyroValue |-> Num(1), accelMagValue |-> Num(4), dt |-> Tenths(1)],
                        [gyroValue |-> Num(-2), accelMagValue |-> 0, dt |-> Tenths(1)]},
     movingAverage |-> {Num(1), Num(2), Num(-2)}]

\* number of update() calls followed on the bank's filter
MaxBankUpdates == 4

\* number of reset() calls followed
MaxResets == 1

\* new <class>(arguments)
NewFilter(kind, args) ==
    CASE kind = "lowPass" -> NewLowPass(args.alpha)
      [] kind = "angle" -> NewAngleFilter(args.alpha)
      [] kind = "kalman" -> NewKalman(args.processNoise, args.measurementNoise)
      [] kind = "complementary" -> NewComplementary(args.alpha)
      [] kind = "movingAverage" -> NewMovingAverage(args.windowSize)

\* filter.update(input)
FilterUpdate(kind, f, in) ==
    CASE kind = "lowPass" -> LowPassUpdate(f, in)
      [] kind = "angle" -> AngleUpdate(f, in)
      [] kind = "kalman" -> KalmanUpdate(f, in)
      [] kind = "complementary" -> ComplementaryUpdate(f, in)
      [] kind = "movingAverage" -> MovingAverageUpdate(f, in)

\* filter.reset()
FilterReset(kind, f) ==
    CASE kind = "lowPass" -> LowPassReset(f)
      [] kind = "angle" -> AngleFilterReset(f)
      [] kind = "kalman" -> KalmanReset(f)
      [] kind = "complementary" -> ComplementaryReset(f)
      [] kind = "movingAverage" -> MovingAverageReset(f)

\* the bank's filter in the other specifications: a low-pass filter, unused
BankIdle ==
    /\ bankArgs = [kind |-> "lowPass", args |-> [alpha |-> Tenths(3)]]
    /\ bankFilter = NewFilter("lowPass", [alpha |-> Tenths(3)])
    /\ bankInputs = <<>>
    /\ bankOutputs = <<>>
    /\ bankResets = 0
    /\ bankUpdates = 0

\* a filter of any class constructed with any of the arguments tried
BankConstructed ==
    /\ \E kind \in FilterKinds : \E args \in BankArguments[kind] :
          /\ bankArgs = [kind |-> kind, args |-> args]
          /\ bankFilter = NewFilter(kind, args)
    /\ bankInputs = <<>>
    /\ bankOutputs = <<>>
    /\ bankResets = 0
    /\ bankUpdates = 0

\* one call of update(in) on the bank's filter
bankUpdate(in) ==
    /\ bankUpdates < MaxBankUpdates
    /\ LET r == FilterUpdate(bankArgs.kind, bankFilter, in)
       IN  /\ bankFilter' = r.filter
           /\ bankOutputs' = Append(bankOutputs, r.result)
    /\ bankInputs' = Append(bankInputs, in)
    /\ bankUpdates' = bankUpdates + 1
    /\ UNCHANGED <<bankArgs, bankResets>>
    /\ UNCHANGED <<geoVars, navVars, sensorVars, registryVars, locationVars, hookVars,
                   movingAverage, maInputs, maOutputs, observed>>

\* one call of reset() on the bank's filter
bankReset ==
    /\ bankResets < MaxResets
    /\ bankFilter' = FilterReset(bankArgs.kind, bankFilter)
    /\ bankInputs' = <<>>
    /\ bankOutputs' = <<>>
    /\ bankResets' = bankResets + 1
    /\ UNCHANGED <<bankArgs, bankUpdates>>
    /\ UNCHANGED <<geoVars, navVars, sensorVars, registryVars, locationVars, hookVars,
                   movingAverage, maInputs, maOutputs, observed>>

BankNext ==
    \/ \E in \in BankSamples[bankArgs.kind] : bankUpdate(in)
    \/ bankReset

\* every filter as the other specifications hold it
FiltersIdle == MovingAverageIdle /\ BankIdle

\* the moving-average filter constructed, the bank's filter unused
FiltersConstructed == MovingAverageConstructed /\ BankIdle

RestIdle == LocationIdle /\ HookIdle /\ FiltersIdle /\ observed = "sensor"

----------------------------------------------------------------------------
(* Specifications *)

\* the angle functions applied to inputs drawn at Init
InitGeo == GeoInit /\ NavInit /\ SensorIdle /\ RegistryIdle /\ RestIdle

SpecGeo == InitGeo /\ [][GeoNext]_vars

\* the aggregator under any interleaving of location and heading updates
InitNav == GeoIdle /\ NavInit /\ SensorIdle /\ RegistryIdle /\ RestIdle

SpecNav == InitNav /\ [][NavNext]_vars

\* the orientation engine, started, under any sequence of samples and calibrations
InitSensor == GeoIdle /\ NavInit /\ SensorStarted /\ RegistryIdle /\ RestIdle

SpecSensor == InitSensor /\ [][SensorNext]_vars

\* the listener registries of both services under any sequence of addListener
\* calls and calls of the functions they returned
InitRegistry == GeoIdle /\ NavInit /\ SensorIdle /\ RegistryIdle /\ RestIdle

SpecRegistry == InitRegistry /\ [][RegistryNext]_vars

\* both services under any sequence of start, stop, cleanup, addListener
\* calls and samples of the hardware
InitServices ==
    /\ GeoIdle /\ NavInit /\ SensorIdle /\ RegistryIdle
    /\ LocationIdle /\ HookIdle /\ FiltersIdle
    /\ observed \in Services

SpecServices == InitServices /\ [][ServicesNext]_vars

\* the hook from its mount on: initialize() with any outcome of each step,
\* then the samples the hardware delivers
InitHook == GeoIdle /\ NavInit /\ SensorIdle /\ RegistryIdle /\ RestIdle

SpecHook == InitHook /\ [][HookNext]_vars

\* a moving-average filter of any window size under any sequence of updates
InitFilters ==
    /\ GeoIdle /\ NavInit /\ SensorIdle /\ RegistryIdle
    /\ LocationIdle /\ HookIdle /\ FiltersConstructed
    /\ observed = "sensor"

SpecFilters == InitFilters /\ [][FiltersNext]_vars

\* formatDistance applied to a distance drawn at Init
InitFormat == FormatInit /\ NavInit /\ SensorIdle /\ RegistryIdle /\ RestIdle

SpecFormat == InitFormat /\ [][FormatNext]_vars

\* one filter of the bank, of any class and arguments, under any sequence of
\* updates and resets
InitBank ==
    /\ GeoIdle /\ NavInit /\ SensorIdle /\ RegistryIdle
    /\ LocationIdle /\ HookIdle /\ MovingAverageIdle /\ BankConstructed
    /\ observed = "sensor"

SpecBank == InitBank /\ [][BankNext]_vars

----------------------------------------------------------------------------
(* Claims about the aggregator, checked under SpecNav *)

\* C1: in every reachable snapshot, distance and bearing are non-null exactly
\* when userLocation is non-null, and relativeAngle is non-null exactly when
\* both bearing and deviceHeading are non-null.
C1_NullnessInvariant ==
    /\ (navigationData.distance # Null) <=> (navigationData.userLocation # Null)
    /\ (navigationData.bearing # Null) <=> (navigationData.userLocation # Null)
    /\ (navigationData.relativeAngle # Null)
           <=> (navigationData.bearing # Null /\ navigationData.deviceHeading # Null)

\* a heading update was applied before any location was known
C1_Witness ==
    /\ lastApplied = "heading"
    /\ navigationData.deviceHeading # Null
    /\ navigationData.userLocation = Null
    /\ navigationData.relativeAngle = Null

\* the snapshot determined by a location sample L and a heading sample H alone
\* (each nullable: no sample of that stream yet)
SnapshotOf(L, H) ==
    LET bearing == IF L # Null THEN Some(calculateBearing(L[1], TARGET_LOCATION)) ELSE Null
        deviceHeading == IF H # Null THEN Some(normalizeAngle(H[1])) ELSE Null
    IN  [userLocation |-> L,
         targetLocation |-> TARGET_LOCATION,
         distance |-> IF L # Null THEN Some(calculateDistance(L[1], TARGET_LOCATION)) ELSE Null,
         bearing |-> bearing,
         deviceHeading |-> deviceHeading,
         relativeAngle |-> IF bearing # Null /\ deviceHeading # Null
                           THEN Some(angleDifference(deviceHeading[1], bearing[1]))
                           ELSE Null]

\* C2: once every queued updater has been applied, whatever the interleaving
\* of the two streams, the snapshot is the one determined by the most recent
\* location sample and the most recent heading sample alone.
C2_LatestSamplesDetermineSnapshot ==
    pending = <<>> => navigationData = SnapshotOf(lastLocation, lastHeading)

\* both streams have delivered, the fix due south of the target (bearing 0)
\* and heading 190: the relative angle is 170
C2_Witness ==
    /\ pending = <<>>
    /\ lastLocation = Some([TARGET_LOCATION EXCEPT !.latitude = @ - Deg(5)])
    /\ lastHeading = Some(Deg(190))
    /\ navigationData.relativeAngle = Some(Deg(170))

\* C3: from every reachable snapshot, for every location sample L and heading
\* sample H, applying the location update then the heading update gives the
\* same relativeAngle as applying the heading update then the location update.
\* (Every snapshot the hook reaches is also reached with an empty queue.)
C3_OrderIndependence ==
    pending = <<>> =>
        \A L \in Locations, H \in Headings :
            updateDeviceHeading(updateLocation(navigationData, L), H).relativeAngle
                = updateLocation(updateDeviceHeading(navigationData, H), L).relativeAngle

\* a heading update applied after a location update, with a non-zero result
C3_Witness ==
    /\ pending = <<>>
    /\ lastApplied = "heading"
    /\ navigationData.userLocation # Null
    /\ navigationData.relativeAngle # Null
    /\ navigationData.relativeAngle # Some(0)

\* C4: applying a location updater leaves deviceHeading and targetLocation
\* unchanged, applying a heading updater leaves userLocation, distance,
\* bearing and targetLocation unchanged, and targetLocation is the
\* construction-time target in every reachable snapshot.
C4_Frame ==
    /\ [](navigationData.targetLocation = TARGET_LOCATION)
    /\ [][(pending # <<>> /\ pending' = Tail(pending)) =>
            /\ navigationData'.targetLocation = navigationData.targetLocation
            /\ Head(pending).kind = "location" =>
                   navigationData'.deviceHeading = navigationData.deviceHeading
            /\ Head(pending).kind = "heading" =>
                   /\ navigationData'.userLocation = navigationData.userLocation
                   /\ navigationData'.distance = navigationData.distance
                   /\ navigationData'.bearing = navigationData.bearing]_vars

\* a location updater was applied to a snapshot that held a heading
C4_Witness ==
    /\ lastApplied = "location"
    /\ navigationData.deviceHeading # Null
    /\ navigationData.userLocation # Null

----------------------------------------------------------------------------
(* Claims about the angle functions, checked under SpecGeo *)

\* C5 as stated: for all angles a and b, angleDifference(a, b) lies in the
\* half-open interval (-180, 180].
C5_HalfOpenRange ==
    geoCall = "angleDifference" => (Deg(-180) < geoResult /\ geoResult <= Deg(180))

\* C5 as amended: for all angles a and b, angleDifference(a, b) lies in the closed
\* interval [-180, 180]; -180 is returned when b - a is -180 or -540.
C5_ClosedRange ==
    geoCall = "angleDifference" => (Deg(-180) <= geoResult /\ geoResult <= Deg(180))

\* angleDifference returned -180
C5_Witness ==
    /\ geoCall = "angleDifference"
    /\ geoA = Deg(180)
    /\ geoB = 0
    /\ geoResult = Deg(-180)

\* both inputs are whole degrees: the program's arithmetic on them is exact
WholeInputs == geoA % Unit = 0 /\ geoB % Unit = 0

\* C6: angleDifference(a, b) is the shortest signed rotation from a to b: its
\* magnitude never exceeds 180 and (where the arithmetic is exact) it is
\* congruent to b - a modulo 360; angleDifference(350, 10) = 20 and
\* angleDifference(10, 350) = -20.
C6_ShortestSignedRotation ==
    geoCall = "angleDifference" =>
        /\ Abs(geoResult) <= Deg(180)
        /\ WholeInputs => (geoResult - (geoB - geoA)) % Deg(360) = 0
        /\ (geoA = Deg(350) /\ geoB = Deg(10)) => geoResult = Deg(20)
        /\ (geoA = Deg(10) /\ geoB = Deg(350)) => geoResult = Deg(-20)

\* angleDifference(350, 10) was computed
C6_Witness ==
    /\ geoCall = "angleDifference"
    /\ geoA = Deg(350)
    /\ geoB = Deg(10)
    /\ geoResult = Deg(20)

\* C7: for every input x, normalizeAngle(x) lies in [0, 360) and (where the
\* arithmetic is exact) is congruent to x modulo 360; normalizeAngle(-10) = 350
\* and normalizeAngle(725) = 5.
C7_NormalizedRange ==
    geoCall = "normalizeAngle" =>
        /\ 0 <= geoResult /\ geoResult < Deg(360)
        /\ geoA % Unit = 0 => (geoResult - geoA) % Deg(360) = 0
        /\ geoA = Deg(-10) => geoResult = Deg(350)
        /\ geoA = Deg(725) => geoResult = Deg(5)

----------------------------------------------------------------------------
(* Claims about the orientation engine, checked under SpecSensor *)

\* how far apart two headings are on the circle
CircularGap(a, b) == Min((a - b) % Deg(360), (b - a) % Deg(360))

\* two headings equal up to the rounding of the arithmetic (1/64 degree)
SameHeading(a, b) == CircularGap(a, b) <= Unit \div 64

\* C8: in any state whose heading filter has converged on the current raw
\* sample, calibrate(T) followed by an ingest of the same raw sample stores and
\* delivers heading T, normalized to [0, 360).
C8_CalibrationContract ==
    (calPhase = "reingested" /\ calConverged) =>
        /\ SameHeading(currentHeading, normalizeAngle(calTarget))
        /\ \A i \in DOMAIN sensorDelivered :
               SameHeading(sensorDelivered[i].heading, normalizeAngle(calTarget))

\* C9: calibrate is not cumulative: after a second (or later) calibrate(T2) the
\* offset is T2 minus the current heading before any offset is applied (the
\* heading filter's value), so the next reading of the same orientation is T2
\* whatever the earlier calibration was.
C9_CalibrationOverwrites ==
    calibrations >= 2 =>
        /\ calPhase = "calibrated" =>
               calibrationOffset = FSub(calTarget, AngleFilterValue(headingFilter))
        /\ (calPhase = "reingested" /\ calConverged) =>
               SameHeading(currentHeading, normalizeAngle(calTarget))

\* C18: after any sequence of samples, calibrate(T) and resetCalibration(),
\* the heading the orientation engine stores and the heading it delivers to
\* its listeners lie in [0, 360).
C18_HeadingInRange ==
    /\ 0 <= currentHeading /\ currentHeading < Deg(360)
    /\ \A i \in DOMAIN sensorDelivered :
           0 <= sensorDelivered[i].heading /\ sensorDelivered[i].heading < Deg(360)

----------------------------------------------------------------------------
(* Claims about the listener registries, checked under SpecRegistry *)

\* C10: the function addListener returns is one-shot: a call of one that has
\* already been called leaves the registry (of either service) unchanged.
C10_UnsubscribeOneShot ==
    [][\A i \in DOMAIN unsubscribers :
          (unsubscribers[i].calls >= 1
               /\ unsubscribers'[i].calls = unsubscribers[i].calls + 1)
          => (sensorListeners' = sensorListeners
                  /\ locationListeners' = locationListeners)]_vars

----------------------------------------------------------------------------
(* Claims about the two services, checked under SpecServices *)

\* what a fan-out of the orientation engine delivers when every listener
\* registered is called once, in registration order, with the stored values
FullSensorFanOut(listeners, heading, pitch, roll) ==
    [i \in 1..Len(listeners) |->
        [listener |-> listeners[i], heading |-> heading, pitch |-> pitch, roll |-> roll]]

\* the same for the location tracker
FullLocationFanOut(listeners, location) ==
    [i \in 1..Len(listeners) |-> [listener |-> listeners[i], location |-> location]]

C12_CleanupIdempotent ==
    /\ ~sensorCleanupOf(SensorState).raised
    /\ sensorCleanupOf(sensorCleanupOf(SensorState)) = sensorCleanupOf(SensorState)
    /\ ~locationCleanupOf(LocationState).raised
    /\ locationCleanupOf(locationCleanupOf(LocationState)) = locationCleanupOf(LocationState)

\* an engine that was started and fed, after its second cleanup
C12_Witness ==
    /\ observed = "sensor"
    /\ cleanups = 2
    /\ starts >= 1
    /\ samples >= 1
    /\ SensorState = sensorCleanupOf(SensorState)

\* the handles held are removed from the hardware and cleared
SensorDetached ==
    /\ ~deviceMotionSubscription' /\ ~magnetometerSubscription'
    /\ deviceMotionListeners' =
           deviceMotionListeners - (IF deviceMotionSubscription THEN 1 ELSE 0)
    /\ magnetometerListeners' =
           magnetometerListeners - (IF magnetometerSubscription THEN 1 ELSE 0)

LocationDetached ==
    /\ ~locationSubscription'
    /\ positionWatches' = positionWatches - (IF locationSubscription THEN 1 ELSE 0)

\* C13: right after cleanup() the service holds no hardware subscription (each
\* one it held was removed), its listener set is empty and its filter is as
\* constructed; no listener registered before the cleanup is called by a
\* sample that arrives after it.
C13_AfterCleanup ==
    /\ [][cleanups' # cleanups =>
              IF observed = "sensor"
              THEN /\ SensorDetached
                   /\ sensorListeners' = <<>>
                   /\ headingFilter' = NewAngleFilter(Tenths(2))
              ELSE /\ LocationDetached
                   /\ locationListeners' = <<>>]_vars
    /\ [](torn \cap (Range(sensorListeners) \cup Range(locationListeners)) = {})
    /\ [][/\ samples' # samples =>
                 \A i \in DOMAIN sensorDelivered' : sensorDelivered'[i].listener \notin torn
          /\ fixes' # fixes =>
                 \A i \in DOMAIN locationDelivered' :
                     locationDelivered'[i].listener \notin torn]_vars

\* a sample delivered to a listener while another, torn down, is not called
C13_Witness ==
    /\ cleanups >= 1
    /\ torn # {}
    /\ sensorListeners # <<>>
    /\ Len(sensorDelivered) = Len(sensorListeners)
    /\ \A i \in DOMAIN sensorDelivered : sensorDelivered[i].listener \notin torn

\* C14: the DeviceMotion listener and the Magnetometer listener are never
\* both attached, whatever startSensors / stopSensors calls were made and
\* whatever the availability was at each.
C14_NeverBothAttached ==
    /\ ~(deviceMotionSubscription /\ magnetometerSubscription)
    /\ ~(deviceMotionListeners > 0 /\ magnetometerListeners > 0)

\* C17: when the handling of a sample fails (a listener throws during the
\* fan-out), nothing is thrown to the source, the stored state is the one
\* held before the sample, and no listener is called for that sample.
C17_SampleFailureContained ==
    [][/\ (samples' # samples /\ ForEachThrows(sensorListeners)) =>
              /\ ~sensorThrown'
              /\ <<headingFilter', currentHeading', currentPitch', currentRoll'>>
                     = <<headingFilter, currentHeading, currentPitch, currentRoll>>
              /\ sensorDelivered' = <<>>
       /\ (fixes' # fixes /\ ForEachThrows(locationListeners)) =>
              /\ ~locationThrown'
              /\ currentLocation' = currentLocation
              /\ locationDelivered' = <<>>]_vars

----------------------------------------------------------------------------
(* Claims about the hook's initialization, checked under SpecHook *)

NoneAvailable == Some([deviceMotion |-> FALSE, magnetometer |-> FALSE])

\* C15: when initializeSensors finds neither DeviceMotion nor Magnetometer
\* available, the failure is reported (error is set), isSensorActive never
\* becomes true, no hardware orientation listener is attached, and
\* deviceHeading and relativeAngle are null in every later snapshot.
C15_SourceUnavailable ==
    availabilitySeen = NoneAvailable =>
        /\ error = Some(ErrSensorsUnavailable)
        /\ ~isSensorActive
        /\ ~deviceMotionSubscription /\ ~magnetometerSubscription
        /\ deviceMotionListeners = 0 /\ magnetometerListeners = 0
        /\ navigationData.deviceHeading = Null
        /\ navigationData.relativeAngle = Null

\* no sensor found, the location watch running and a snapshot published
C15_Witness ==
    /\ availabilitySeen = NoneAvailable
    /\ hookPc = "done"
    /\ fixes >= 1
    /\ navigationData.userLocation # Null
    /\ pending = <<>>

\* C16: when the location permission was refused, the error reported once
\* initialize() has finished is the permission-denied error, whatever the
\* outcome of the sensor initialization.
C16_PermissionDeniedReported ==
    (hookPc = "done" /\ permissionRefused) => error = Some(ErrPermissionDenied)

----------------------------------------------------------------------------
(* Claims about the direction hint, checked under SpecNav *)

\* C19: whenever the snapshot has a relative angle r, the hint shown is
\* "aligned" exactly when |r| < 10, otherwise "turn left" exactly when r > 0
\* and "turn right" exactly when r < 0, and the success styling goes with the
\* aligned hint; with bearing 0, heading 0 gives r = 0 and "aligned", heading
\* 190 gives r = 170 and "turn left".
C19_DirectionHint ==
    navigationData.relativeAngle # Null =>
        LET r == navigationData.relativeAngle[1]
            hint == directionHint(r)
        IN /\ hint \in {HintAligned, HintLeft, HintRight}
           /\ (hint = HintAligned) <=> (Abs(r) < Deg(10))
           /\ (hint = HintLeft) <=> (Abs(r) >= Deg(10) /\ r > 0)
           /\ (hint = HintRight) <=> (Abs(r) >= Deg(10) /\ r < 0)
           /\ isAligned(r) <=> (hint = HintAligned)
           /\ (navigationData.bearing = Some(0)
                 /\ navigationData.deviceHeading = Some(0))
                 => (r = 0 /\ hint = HintAligned)
           /\ (navigationData.bearing = Some(0)
                 /\ navigationData.deviceHeading = Some(Deg(190)))
                 => (r = Deg(170) /\ hint = HintLeft)

\* the snapshot of the second example: due south of the target, heading 190
C19_Witness ==
    /\ navigationData.bearing = Some(0)
    /\ navigationData.deviceHeading = Some(Deg(190))
    /\ navigationData.relativeAngle # Null
    /\ directionHint(navigationData.relativeAngle[1]) = HintLeft

----------------------------------------------------------------------------
(* Claims about the moving-average filter, checked under SpecFilters *)

\* exact sum of a sequence of numbers
RECURSIVE SumOf(_)
SumOf(seq) == IF seq = <<>> THEN 0 ELSE Head(seq) + SumOf(Tail(seq))

\* the last min(j, w) of the first j inputs
LastInputs(j, w) == SubSeq(maInputs, j - Min(j, w) + 1, j)

\* C20: with window size w >= 1, the k-th call of update() returns the
\* arithmetic mean (to the nearest representable number) of the last
\* min(k, w) inputs; the buffer holds exactly those inputs, oldest first, so
\* never more than w and the oldest is the one dropped; with w = 3 the
\* inputs 1, 2, 3, 4 return 1, 1.5, 2, 3.
C20_MovingAverage ==
    LET k == Len(maInputs)
        w == movingAverage.windowSize
    IN /\ w >= 1
       /\ Len(maOutputs) = k
       /\ Len(movingAverage.buffer) <= w
       /\ movingAverage.buffer = LastInputs(k, w)
       /\ \A j \in 1..k :
              2 * Abs(maOutputs[j] * Min(j, w) - SumOf(LastInputs(j, w))) <= Min(j, w)
       /\ (w = 3 /\ maInputs = <<Num(1), Num(2), Num(3), Num(4)>>)
              => maOutputs = <<Num(1), Num(3) \div 2, Num(2), Num(3)>>

\* the example run, after its fourth update has dropped the oldest input
C20_Witness ==
    /\ movingAverage.windowSize = 3
    /\ maInputs = <<Num(1), Num(2), Num(3), Num(4)>>
    /\ movingAverage.buffer = <<Num(2), Num(3), Num(4)>>
    /\ maOutputs[4] = Num(3)

----------------------------------------------------------------------------
(* Claims about the filter bank, checked under SpecBank *)

\* the outputs a freshly constructed filter returns for a sequence of inputs
RECURSIVE FreshRun(_, _, _)
FreshRun(kind, args, inputs) ==
    IF inputs = <<>> THEN [filter |-> NewFilter(kind, args), outputs |-> <<>>]
    ELSE LET before == FreshRun(kind, args, SubSeq(inputs, 1, Len(inputs) - 1))
             r == FilterUpdate(kind, before.filter, inputs[Len(inputs)])
         IN  [filter |-> r.filter, outputs |-> Append(before.outputs, r.result)]

\* C21: for every filter of the bank, the outputs returned since the last
\* reset() are those a freshly constructed filter with the same arguments
\* returns for the same inputs, whatever updates preceded the reset.
C21_ResetAsFresh ==
    bankOutputs = FreshRun(bankArgs.kind, bankArgs.args, bankInputs).outputs

\* a Kalman filter updated twice, reset, then updated twice with two
\* different measurements
C21_Witness ==
    /\ bankArgs.kind = "kalman"
    /\ bankResets = 1
    /\ bankUpdates = 4
    /\ Len(bankInputs) = 2
    /\ bankInputs[1] # bankInputs[2]

\* C22: the first update of a low-pass filter and of a Kalman filter after
\* construction or reset returns exactly the sample given, whatever alpha, q
\* and r; every later low-pass update returns alpha*sample + (1-alpha)*previous
\* (alpha as clamped by the constructor, to the rounding of the representation).
C22_FirstUpdateSeeds ==
    /\ (bankArgs.kind \in {"lowPass", "kalman"} /\ bankOutputs # <<>>)
           => bankOutputs[1] = bankInputs[1]
    /\ bankArgs.kind = "lowPass" =>
           LET alpha == Max(0, Min(TrigScale, bankArgs.args.alpha))
           IN  \A j \in 2..Len(bankOutputs) :
                   Abs(bankOutputs[j] * TrigScale
                         - (alpha * bankInputs[j]
                             + (TrigScale - alpha) * bankOutputs[j - 1])) <= TrigScale

\* a low-pass filter after a reset: seeded by its first sample, then blending
C22_Witness ==
    /\ bankArgs.kind = "lowPass"
    /\ bankResets = 1
    /\ Len(bankOutputs) = 2
    /\ bankOutputs[1] = bankInputs[1]
    /\ bankOutputs[2] # bankInputs[2]
    /\ bankOutputs[2] # bankOutputs[1]

\* whether a sequence of angles alternates between 350 and 10 degrees
Alternating(inputs) ==
    /\ Len(inputs) >= 2
    /\ \A j \in 1..Len(inputs) : inputs[j] \in {Deg(350), Deg(10)}
    /\ \A j \in 2..Len(inputs) : inputs[j] # inputs[j - 1]

----------------------------------------------------------------------------
(* Claims about events without rotation, checked under SpecServices *)

\* C24: a DeviceMotion event that carries no rotation changes nothing: the
\* stored heading, pitch and roll, the heading filter's averages and the
\* calibration offset are as before, and no listener is called.
C24_NoRotationNoChange ==
    [][emptyEvents' # emptyEvents =>
          /\ UNCHANGED <<currentHeading, currentPitch, currentRoll,
                         headingFilter, calibrationOffset>>
          /\ samples' = samples
          /\ sensorDelivered' = sensorDelivered
          /\ sensorListeners' = sensorListeners]_vars

\* an event without rotation was handled by an engine that holds a heading
\* and has a listener registered
C24_Witness ==
    /\ emptyEvents = 1
    /\ samples >= 1
    /\ sensorListeners # <<>>
    /\ deviceMotionListeners > 0

----------------------------------------------------------------------------
(* Claims about the unmount, checked under SpecHook *)

\* C25: once the hook is unmounted and every step of initialize() has
\* settled, neither service holds a hardware subscription (none is attached
\* to the hardware either) nor a listener the hook registered.
C25_SettledAfterUnmount ==
    (unmounted /\ hookPc = "done") =>
        /\ ~locationSubscription /\ positionWatches = 0
        /\ ~deviceMotionSubscription /\ deviceMotionListeners = 0
        /\ ~magnetometerSubscription /\ magnetometerListeners = 0
        /\ HookLocationListener \notin Range(locationListeners)
        /\ HookHeadingListener \notin Range(sensorListeners)

----------------------------------------------------------------------------
(* Claims about the hardware subscriptions, checked under SpecServices *)

\* C26: at every moment at most one position watch created by the tracker
\* is active, whatever the sequence and overlap of startWatching(),
\* stopWatching() and cleanup() calls.
C26_AtMostOneWatch == positionWatches <= 1

\* C27: every orientation listener attached to the hardware is the one the
\* engine's subscription field references: DeviceMotion and Magnetometer each
\* have one listener while the field is set and none while it is null (so
\* after stopSensors()), for any sequence of startSensors() and stopSensors().
C27_ListenersAreHandles ==
    /\ deviceMotionListeners = (IF deviceMotionSubscription THEN 1 ELSE 0)
    /\ magnetometerListeners = (IF magnetometerSubscription THEN 1 ELSE 0)

----------------------------------------------------------------------------
(* Claims about formatDistance, checked under SpecFormat *)

\* C28: for every distance d >= 0, formatDistance shows meters only when
\* d < 1000 and kilometers (the whole part of d / 1000) with the remaining
\* meters when d >= 1000, and the number of meters shown is in 0..999.
C28_MetersBelowThousand ==
    geoCall = "formatDistance" =>
        /\ (geoResult.km = Null) <=> (geoA < 1000 * Unit)
        /\ geoResult.km # Null => geoResult.km[1] * 1000 * Unit <= geoA
        /\ geoResult.km # Null => geoA < (geoResult.km[1] + 1) * 1000 * Unit
        /\ geoResult.meters \in 0..999

====
